---------------------------- MODULE Spec2Model ----------------------------
(***************************************************************************)
(* A model of runrex's pattern/document core (src/src/runrex/algo/pattern.py *)
(* and src/src/runrex/text/ssplit.py).                                       *)
(*                                                                           *)
(* Text is a sequence of one-character strings.  Offsets are Python offsets  *)
(* (0-based, half open).  A compiled regular expression is modelled by the   *)
(* class of patterns the repository's own examples use: an alternation of    *)
(* alternatives, each alternative a sequence of captured literals,           *)
(*     (?:(l11)(l12)|(l21)(l22)|...)                                         *)
(* searched the way re.search does (leftmost position, first alternative).   *)
(***************************************************************************)
EXTENDS Integers, Sequences, FiniteSets, TLC

VARIABLES
    pc,           \* which object graph is alive and where its construction stands
    arg,          \* the constructor arguments / inputs of this run
    pat,          \* Pattern object: compiled regexes and capture_length
    match_count,  \* Pattern.match_count
    sentences,    \* Sentences.sentences / the Sentence under test
    casks,        \* MatchCask objects: cask id -> MatchCask.matches
    sections,     \* Section objects built so far
    result        \* what the last call returned (or raised)

vars == <<pc, arg, pat, match_count, sentences, casks, sections, result>>

---------------------------------------------------------------------------
(* Bounds of the model.                                                     *)

MaxLen == 3        \* longest text handed to Pattern.matches
MaxCount == 2      \* cap on Pattern.match_count

---------------------------------------------------------------------------
(* Python values.                                                           *)

PyNone == <<"None">>                 \* None (never equal to a text)
PyFalse == [kind |-> "False"]        \* the False that Pattern.matches returns
NoResult == [kind |-> "nothing"]     \* no call made yet

SP == " "
NL == "\n"
Letters == {"a", "b", "c"}
Whitespace == {SP, NL}               \* what str.strip()/lstrip()/rstrip() remove

Min(S) == CHOOSE x \in S : \A y \in S : x <= y
Max(S) == CHOOSE x \in S : \A y \in S : x >= y

\* The element of a one-element set.  { F(x) : x \in {e} } names the value of e
\* once for all its uses in F, the way a local variable of the code does.
Bind(S) == CHOOSE x \in S : TRUE

\* All texts over the alphabet cs of length at most n.
TextsOver(cs, n) == UNION {[1..k -> cs] : k \in 0..n}

\* Python slice s[i:j] for 0 <= i, with j clamped to len(s).
Slice(s, i, j) == SubSeq(s, i + 1, IF j > Len(s) THEN Len(s) ELSE j)

RECURSIVE Flatten(_)
Flatten(ss) == IF ss = <<>> THEN <<>> ELSE Head(ss) \o Flatten(Tail(ss))

\* len(s) - len(s.lstrip())
LeadingWs(s) ==
    IF \A i \in 1..Len(s) : s[i] \in Whitespace THEN Len(s)
    ELSE Min({i \in 1..Len(s) : s[i] \notin Whitespace}) - 1

\* len(s) - len(s.rstrip())
TrailingWs(s) ==
    IF \A i \in 1..Len(s) : s[i] \in Whitespace THEN Len(s)
    ELSE Len(s) - Max({i \in 1..Len(s) : s[i] \notin Whitespace})

LStrip(s) == SubSeq(s, LeadingWs(s) + 1, Len(s))
RStrip(s) == SubSeq(s, 1, Len(s) - TrailingWs(s))
Strip(s) == RStrip(LStrip(s))

---------------------------------------------------------------------------
(* The regex facility (Python's re), for the modelled class of patterns.    *)

\* A regex source: alts is the alternation, wellformed says whether
\* re.compile accepts the source.
Rx(alts) == [alts |-> alts, wellformed |-> TRUE]
BadRx == [alts |-> << <<<<"a">>>> >>, wellformed |-> FALSE]
Lit(l) == Rx(<< <<l>> >>)

AltText(alt) == Flatten(alt)

MatchAt(lit, text, i) ==
    /\ i + Len(lit) <= Len(text)
    /\ SubSeq(text, i + 1, i + Len(lit)) = lit

\* compiled.groups: the number of capture groups.
RECURSIVE SumLen(_)
SumLen(ss) == IF ss = <<>> THEN 0 ELSE Len(Head(ss)) + SumLen(Tail(ss))
NGroups(rx) == SumLen(rx.alts)

\* m.groups() when alternative k matched: the literals of alternative k, None
\* for every group of every other alternative.
RECURSIVE RawGroups(_, _, _)
RawGroups(alts, k, j) ==
    IF j > Len(alts) THEN <<>>
    ELSE (IF j = k THEN alts[j] ELSE [x \in 1..Len(alts[j]) |-> PyNone])
         \o RawGroups(alts, k, j + 1)

\* (m.start(g), m.end(g)) of every group g when alternative k matched at
\* offset at: consecutive spans for the groups of alternative k, (-1, -1) for
\* the groups that took no part.
RECURSIVE LitSpans(_, _)
LitSpans(lits, at) ==
    IF lits = <<>> THEN <<>>
    ELSE << <<at, at + Len(Head(lits))>> >> \o LitSpans(Tail(lits), at + Len(Head(lits)))

RECURSIVE RawSpans(_, _, _, _)
RawSpans(alts, k, j, at) ==
    IF j > Len(alts) THEN <<>>
    ELSE (IF j = k THEN LitSpans(alts[j], at) ELSE [x \in 1..Len(alts[j]) |-> <<-1, -1>>])
         \o RawSpans(alts, k, j + 1, at)

\* The alternatives of rx that match at offset i of text.
AltsAt(rx, text, i) ==
    {k \in 1..Len(rx.alts) : MatchAt(AltText(rx.alts[k]), text, i)}

\* The re.Match of alternative k of rx at offset i.
ReMatch(rx, k, i) ==
    [kind |-> "re.Match", start |-> i,
     end |-> i + Len(AltText(rx.alts[k])),
     groups |-> RawGroups(rx.alts, k, 1),
     spans |-> RawSpans(rx.alts, k, 1, i)]

\* re.search from position `from`: the leftmost match, first alternative first.
SearchFrom(rx, text, from) ==
    Bind({ IF positions = {} THEN PyFalse
           ELSE Bind({ ReMatch(rx, Min(AltsAt(rx, text, i)), i) : i \in {Min(positions)} })
           : positions \in { {i \in from..Len(text) : AltsAt(rx, text, i) # {}} } })

\* compiled.search(text)
Search(rx, text) == SearchFrom(rx, text, 0)

Found(m) == m.kind # "False"


---------------------------------------------------------------------------
(* Pattern (pattern.py:40-165).                                             *)

NoPattern == [kind |-> "unconstructed"]
Raise(exc) == [kind |-> "raise", exc |-> exc]

\* Pattern.__init__: compiles the primary regex, then every negation, any-of
\* and all-of regex; re.compile raises re.error on a source it cannot parse.
\* capture_length is stored as given (0 stands for None) and is not looked at.
\* (The rewriting of ' ' into the separator regex does not touch the sources
\* used here: they hold no blank.)
PatternInit(a) ==
    IF \/ ~a.pattern.wellformed
       \/ \E i \in 1..Len(a.negates) : ~a.negates[i].wellformed
       \/ \E i \in 1..Len(a.requires) : ~a.requires[i].wellformed
       \/ \E i \in 1..Len(a.requires_all) : ~a.requires_all[i].wellformed
    THEN Raise("re.error")
    ELSE [kind |-> "Pattern", pattern |-> a.pattern, negates |-> a.negates,
          requires |-> a.requires, requires_all |-> a.requires_all,
          capture_length |-> a.capture_length]

\* The regexes of the list rxs that a `for rx in rxs: if <rx.search(text) is
\* stop>: return/break` loop searches: up to and including the first one whose
\* search outcome is `stop`.
LoopSearched(rxs, text, stop) ==
    LET hits == {i \in 1..Len(rxs) : Found(Search(rxs[i], text)) = stop}
    IN  IF hits = {} THEN Len(rxs) ELSE Min(hits)

LoopStopped(rxs, text, stop) ==
    \E i \in 1..Len(rxs) : Found(Search(rxs[i], text)) = stop

Probes(stage, n) == [i \in 1..n |-> <<stage, i>>]

\* A mutation of _confirm_match: the all-of loop returns at the first regex
\* that matches instead of the first that does not.
ConfirmMatchAllAsAny(p, text, ignore_negation, ignore_requires, ignore_requires_all) ==
    LET negN == IF ignore_negation THEN 0 ELSE LoopSearched(p.negates, text, TRUE)
        negHit == ~ignore_negation /\ LoopStopped(p.negates, text, TRUE)
        doReq == ~ignore_requires /\ p.requires # <<>>
        reqN == IF doReq THEN LoopSearched(p.requires, text, TRUE) ELSE 0
        reqMiss == doReq /\ ~LoopStopped(p.requires, text, TRUE)
        allN == IF ignore_requires_all THEN 0 ELSE LoopSearched(p.requires_all, text, TRUE)
        allMiss == ~ignore_requires_all /\ LoopStopped(p.requires_all, text, TRUE)
    IN  IF negHit THEN [ok |-> FALSE, searched |-> Probes("negates", negN)]
        ELSE IF reqMiss
             THEN [ok |-> FALSE,
                   searched |-> Probes("negates", negN) \o Probes("requires", reqN)]
        ELSE [ok |-> ~allMiss,
              searched |-> Probes("negates", negN) \o Probes("requires", reqN)
                           \o Probes("requires_all", allN)]

\* Pattern._confirm_match (pattern.py:90-108): ok is the boolean returned,
\* searched the regex searches made, in the order made.
ConfirmMatch(p, text, ignore_negation, ignore_requires, ignore_requires_all) ==
    LET negN == IF ignore_negation THEN 0 ELSE LoopSearched(p.negates, text, TRUE)
        negHit == ~ignore_negation /\ LoopStopped(p.negates, text, TRUE)
        doReq == ~ignore_requires /\ p.requires # <<>>
        reqN == IF doReq THEN LoopSearched(p.requires, text, TRUE) ELSE 0
        reqMiss == doReq /\ ~LoopStopped(p.requires, text, TRUE)
        allN == IF ignore_requires_all THEN 0 ELSE LoopSearched(p.requires_all, text, FALSE)
        allMiss == ~ignore_requires_all /\ LoopStopped(p.requires_all, text, FALSE)
    IN  IF negHit THEN [ok |-> FALSE, searched |-> Probes("negates", negN)]
        ELSE IF reqMiss
             THEN [ok |-> FALSE,
                   searched |-> Probes("negates", negN) \o Probes("requires", reqN)]
        ELSE [ok |-> ~allMiss,
              searched |-> Probes("negates", negN) \o Probes("requires", reqN)
                           \o Probes("requires_all", allN)]

\* zip(*[iter(groups)] * k): the consecutive k-sized blocks of groups (a last
\* short block is dropped).
Blocks(groups, k) == [b \in 1..(Len(groups) \div k) |-> SubSeq(groups, (b - 1) * k + 1, b * k)]

\* A mutation of _compress_groups: the first block is returned whatever it
\* holds.
CompressGroupsFirstBlock(p, m) ==
    IF p.capture_length # 0
    THEN IF Len(m.groups) % p.capture_length # 0
         THEN Raise("AssertionError")
         ELSE [kind |-> "groups", v |-> Blocks(m.groups, p.capture_length)[1]]
    ELSE [kind |-> "groups", v |-> PyNone]

\* Pattern._compress_groups (pattern.py:139-149): None without a
\* capture_length; AssertionError when capture_length does not divide the
\* number of raw groups; else the first block whose first element is not None
\* (None when the loop ends without one).
CompressGroups(p, m) ==
    IF p.capture_length # 0
    THEN IF Len(m.groups) % p.capture_length # 0
         THEN Raise("AssertionError")
         ELSE LET bs == Blocks(m.groups, p.capture_length)
                  live == {b \in 1..Len(bs) : bs[b][1] # PyNone}
              IN  IF live = {} THEN [kind |-> "groups", v |-> PyNone]
                  ELSE [kind |-> "groups", v |-> bs[Min(live)]]
    ELSE [kind |-> "groups", v |-> PyNone]

\* Match(m, groups): the wrapped re.Match (its span, its raw groups, the text
\* searched) and the compressed groups.
MkMatch(m, text, cg) ==
    [kind |-> "Match", start |-> m.start, end |-> m.end, groups |-> m.groups,
     spans |-> m.spans, string |-> text, cgroups |-> cg]

\* Pattern.matches (pattern.py:124-137).  ret is what the call returns or
\* raises, count the value of match_count after it, searched the constraint
\* searches made.
Matches(p, count, text, ignore_negation, ignore_requires, ignore_requires_all) ==
    Bind({ IF Found(m)
           THEN Bind({ IF ~c.ok
                       THEN [ret |-> PyFalse, count |-> count, searched |-> c.searched]
                       ELSE Bind({ [ret |-> IF cg.kind = "raise" THEN cg
                                            ELSE MkMatch(m, text, cg.v),
                                    count |-> count + 1, searched |-> c.searched]
                                   : cg \in {CompressGroups(p, m)} })
                       : c \in {ConfirmMatch(p, text, ignore_negation, ignore_requires,
                                              ignore_requires_all)} })
           ELSE [ret |-> PyFalse, count |-> count, searched |-> <<>>]
           : m \in {Search(p.pattern, text)} })

\* bool(x) of what matches returned.
Truthy(ret) == ret.kind = "Match"

---------------------------------------------------------------------------
(* Inputs of the Pattern runs.                                              *)

a1 == <<"a">>
b1 == <<"b">>
c1 == <<"c">>

PArg(rx, neg, req, all, cl) ==
    [pattern |-> rx, negates |-> neg, requires |-> req, requires_all |-> all,
     capture_length |-> cl]

AorB == Rx(<< <<a1>>, <<b1>> >>)                  \* (?:(a)|(b))
AorAB == Rx(<< <<a1>>, <<a1 \o b1>> >>)           \* (?:(a)|(ab))
ABC3 == Rx(<< <<a1>>, <<b1>>, <<c1>> >>)          \* (?:(a)|(b)|(c))
Pairs == Rx(<< <<a1, b1>>, <<b1, c1>> >>)         \* (?:(a)(b)|(b)(c))

PatternArgs ==
    { PArg(Lit(a1), <<>>, <<>>, <<>>, 0),
      PArg(AorAB, <<Lit(c1)>>, <<>>, <<>>, 0),
      PArg(Lit(a1), <<Lit(b1), Lit(c1)>>, <<>>, <<>>, 0),
      PArg(Lit(a1), <<>>, <<Lit(b1), Lit(c1)>>, <<>>, 0),
      PArg(Lit(a1), <<>>, <<>>, <<Lit(b1), Lit(c1)>>, 0),
      PArg(Lit(a1), <<Lit(b1 \o b1)>>, <<Lit(c1)>>, <<Lit(b1)>>, 0),
      PArg(AorB, <<>>, <<>>, <<>>, 1),
      PArg(Pairs, <<>>, <<>>, <<>>, 2),
      PArg(ABC3, <<>>, <<>>, <<>>, 2),
      PArg(Lit(a1), <<Lit(b1)>>, <<>>, <<>>, 2),
      PArg(BadRx, <<>>, <<>>, <<>>, 0),
      PArg(Lit(a1), <<BadRx>>, <<>>, <<>>, 0) }

PatternTexts == TextsOver(Letters, MaxLen)

---------------------------------------------------------------------------
(* The Pattern runs: construct one Pattern, then call matches on one text   *)
(* with any flags.                                                          *)

InitPattern ==
    /\ pc = "Pattern.new"
    /\ arg \in [src : PatternArgs, text : PatternTexts]
    /\ pat = NoPattern
    /\ match_count = 0
    /\ sentences = <<>>
    /\ casks = <<>>
    /\ sections = <<>>
    /\ result = NoResult

\* Pattern(...)
PatternConstruct ==
    /\ pc = "Pattern.new"
    /\ \E p \in {PatternInit(arg.src)} :
           IF p.kind = "raise"
           THEN /\ pc' = "Pattern.failed"
                /\ result' = [op |-> "Pattern", ret |-> p]
                /\ UNCHANGED pat
           ELSE /\ pc' = "Pattern.ready"
                /\ pat' = p
                /\ result' = [op |-> "Pattern", ret |-> [kind |-> "Pattern"]]
    /\ match_count' = 0
    /\ UNCHANGED <<arg, sentences, casks, sections>>

\* pat.matches(text, ignore_negation=, ignore_requires=, ignore_requires_all=)
PatternMatches ==
    /\ pc = "Pattern.ready"
    /\ match_count < MaxCount
    /\ \E ign \in BOOLEAN, igr \in BOOLEAN, iga \in BOOLEAN :
         \E r \in {Matches(pat, match_count, arg.text, ign, igr, iga)} :
             /\ result' = [op |-> "matches", ignore_negation |-> ign,
                           ignore_requires |-> igr, ignore_requires_all |-> iga,
                           ret |-> r.ret, searched |-> r.searched,
                           before |-> match_count]
             /\ match_count' = r.count
    /\ UNCHANGED <<pc, arg, pat, sentences, casks, sections>>

NextPattern == PatternConstruct \/ PatternMatches

SpecPattern == InitPattern /\ [][NextPattern]_vars


---------------------------------------------------------------------------
(* Claims about Pattern, checked under SpecPattern.                         *)

\* rx has an occurrence somewhere in text.
Occurs(rx, text) ==
    \E i \in 0..Len(text) : \E k \in 1..Len(rx.alts) :
        MatchAt(AltText(rx.alts[k]), text, i)

\* The offsets at which the primary regex has an occurrence.
PrimaryHits(p, text) ==
    {i \in 0..Len(text) : \E k \in 1..Len(p.pattern.alts) :
        MatchAt(AltText(p.pattern.alts[k]), text, i)}

CaptureLengthDivides(p) ==
    p.capture_length = 0 \/ NGroups(p.pattern) % p.capture_length = 0

StageRank(stage) ==
    CASE stage = "negates" -> 1 [] stage = "requires" -> 2 [] stage = "requires_all" -> 3

C10_BadCaptureLengthFailsConstruction ==
    pc = "Pattern.ready" => CaptureLengthDivides(pat)


---------------------------------------------------------------------------
(* Match, MatchCask, the sentence splitters, Sentence and Sentences          *)
(* (pattern.py:6-38, 168-307; ssplit.py:12-17).                              *)

PyNoneRet == [kind |-> "None"]       \* a call that returned None

\* Match.group(index) for one index (pattern.py:12-22): the raw match's group
\* when there are no compressed groups or index is 0; otherwise the method
\* fills a list and falls off its end, returning None.
MatchGroup(m, index) ==
    IF m.cgroups = PyNone \/ m.cgroups = <<>> \/ index = 0
    THEN IF index = 0 THEN Slice(m.string, m.start, m.end) ELSE m.groups[index]
    ELSE PyNone

\* Match.start(group) / Match.end(group): those of the raw match.
MatchStart(m, index) == IF index = 0 THEN m.start ELSE m.spans[index][1]
MatchEnd(m, index) == IF index = 0 THEN m.end ELSE m.spans[index][2]

\* MatchCask.add(m) on cask id mc of the cask heap cs.
CaskAdd(cs, mc, m) == [cs EXCEPT ![mc] = Append(@, m)]

\* 1-based positions of the newlines of text after offset start: each is the
\* m.end() of a re.finditer('\n', text) match.
NewlineEnds(text, start) == {i \in (start + 1)..Len(text) : text[i] = NL}

\* default_ssplit (pattern.py:197-203): one (text, start, end) triple per line,
\* the newline kept at the end of its line.
RECURSIVE DefaultSsplitFrom(_, _)
DefaultSsplitFrom(text, start) ==
    IF NewlineEnds(text, start) = {}
    THEN << [s |-> Slice(text, start, Len(text)), sidx |-> start, eidx |-> Len(text)] >>
    ELSE LET e == Min(NewlineEnds(text, start))
         IN  << [s |-> Slice(text, start, e), sidx |-> start, eidx |-> e] >>
             \o DefaultSsplitFrom(text, e)

DefaultSsplit(text) == DefaultSsplitFrom(text, 0)

\* ' '.join(s.split()): the whitespace-separated words of s joined by one
\* blank each.
RECURSIVE JoinSplit(_)
JoinSplit(s) ==
    LET t == LStrip(s)
    IN  IF t = <<>> THEN <<>>
        ELSE LET stops == {i \in 1..Len(t) : t[i] \in Whitespace}
                 n == IF stops = {} THEN Len(t) ELSE Min(stops) - 1
                 rest == JoinSplit(SubSeq(t, n + 1, Len(t)))
             IN  SubSeq(t, 1, n) \o (IF rest = <<>> THEN <<>> ELSE <<SP>> \o rest)

\* regex_ssplit with delim '\n' (ssplit.py:12-17): the offsets of
\* default_ssplit, the text of each line whitespace-normalised.
RECURSIVE RegexSsplitFrom(_, _)
RegexSsplitFrom(text, start) ==
    IF NewlineEnds(text, start) = {}
    THEN << [s |-> JoinSplit(Slice(text, start, Len(text))), sidx |-> start,
             eidx |-> Len(text)] >>
    ELSE LET e == Min(NewlineEnds(text, start))
         IN  << [s |-> JoinSplit(Slice(text, start, e)), sidx |-> start, eidx |-> e] >>
             \o RegexSsplitFrom(text, e)

RegexSsplit(text) == RegexSsplitFrom(text, 0)

Ssplit(how, text) ==
    IF how = "regex_ssplit" THEN RegexSsplit(text) ELSE DefaultSsplit(text)

\* A mutation of Sentence.strip: start is not advanced past the leading
\* whitespace.
SentenceStripKeepStart(s) ==
    LET start_incr == Len(s.text) - Len(LStrip(s.text))
        rtext == RStrip(LStrip(s.text))
    IN  [s EXCEPT !.end = @ - (Len(s.text) - Len(rtext) - start_incr),
                  !.text = rtext]

\* Sentence.strip (pattern.py:260-266).
SentenceStrip(s) ==
    LET start_incr == Len(s.text) - Len(LStrip(s.text))
        rtext == RStrip(LStrip(s.text))
    IN  [s EXCEPT !.start = @ + start_incr,
                  !.end = @ - (Len(s.text) - Len(rtext) - start_incr),
                  !.text = rtext]

\* Sentence.__init__ (pattern.py:253-258) with matches cask id mc; end_given
\* says whether end was passed (`end if end else len(self.text)` also takes
\* the length for end = 0).
SentenceInit(text, mc, start, end_given, end) ==
    SentenceStrip([text |-> text, matches |-> mc, start |-> start,
                   end |-> IF end_given /\ end # 0 THEN end ELSE Len(text)])

\* The triples a Sentences / Sections.add comprehension keeps: `if s.strip()`.
RECURSIVE KeepNonBlank(_)
KeepNonBlank(triples) ==
    IF triples = <<>> THEN <<>>
    ELSE (IF Strip(Head(triples).s) # <<>> THEN <<Head(triples)>> ELSE <<>>)
         \o KeepNonBlank(Tail(triples))

\* Sentences.__init__ (pattern.py:208-209) over the cask heap cs: with
\* matches = None (mc = 0) every Sentence makes a MatchCask of its own
\* (`mc or MatchCask()`), else all share cask mc.
SentencesInit(text, mc, how, cs) ==
    Bind({ [sentences |-> [i \in 1..Len(kept) |->
                             SentenceInit(kept[i].s, IF mc = 0 THEN Len(cs) + i ELSE mc,
                                          kept[i].sidx, TRUE, kept[i].eidx)],
            casks |-> IF mc = 0 THEN cs \o [i \in 1..Len(kept) |-> <<>>] ELSE cs]
           : kept \in {KeepNonBlank(Ssplit(how, text))} })

\* Sentence.get_pattern (pattern.py:282-296): ret is the value returned (or
\* the exception raised by pat.matches), count the pattern's match_count
\* afterwards, casks the cask heap afterwards.
SentenceGetPattern(s, p, count, cs, index, get_indices) ==
    Bind({ IF r.ret.kind = "raise" THEN [ret |-> r.ret, count |-> r.count, casks |-> cs]
           ELSE IF Truthy(r.ret)
           THEN [ret |-> IF get_indices
                         THEN [kind |-> "tuple", text |-> MatchGroup(r.ret, index),
                               start |-> MatchStart(r.ret, index) + s.start,
                               end |-> MatchEnd(r.ret, index) + s.start]
                         ELSE [kind |-> "str", text |-> MatchGroup(r.ret, index)],
                 count |-> r.count,
                 casks |-> CaskAdd(cs, s.matches, r.ret)]
           ELSE [ret |-> PyNoneRet, count |-> r.count, casks |-> cs]
           : r \in {Matches(p, count, s.text, FALSE, FALSE, FALSE)} })

\* bool() of what get_pattern returned: a tuple is true, a string is true when
\* it is not empty, None is false.
TruthyRet(ret) ==
    \/ ret.kind = "tuple"
    \/ ret.kind = "str" /\ ret.text # PyNone /\ ret.text # <<>>

\* Sentences.get_pattern (pattern.py:225-235): the first sentence's truthy
\* answer; the sentences before it have been evaluated too.
RECURSIVE SentencesGetPattern(_, _, _, _, _, _)
SentencesGetPattern(ss, p, count, cs, index, get_indices) ==
    IF ss = <<>> THEN [ret |-> PyNoneRet, count |-> count, casks |-> cs]
    ELSE Bind({ IF r.ret.kind = "raise" \/ TruthyRet(r.ret) THEN r
                ELSE SentencesGetPattern(Tail(ss), p, r.count, r.casks, index, get_indices)
                : r \in {SentenceGetPattern(Head(ss), p, count, cs, index, get_indices)} })

---------------------------------------------------------------------------
(* The Sentence runs: build one Sentence, or one Sentences with one of the   *)
(* two splitters, from a text, then look a pattern up.                       *)

MaxSentLen == 3    \* longest text handed to Sentence / Sentences
MaxBase == 2       \* largest start offset handed to Sentence

SentenceTexts == TextsOver({"a", "c", SP, NL}, MaxSentLen)

SentencePatternArgs ==
    { PArg(AorB, <<>>, <<>>, <<>>, 0),
      PArg(AorB, <<>>, <<>>, <<>>, 1) }

Hows == {"Sentence", "default_ssplit", "regex_ssplit"}

\* The inputs: a text; for Sentence(text, start=, end=) a start and whether
\* end is passed (then it is start + len(text), as a splitter would pass);
\* for Sentences(text, ssplit=) the splitter.
InitSentence ==
    /\ pc = "Text"
    /\ arg \in [src : SentencePatternArgs, text : SentenceTexts, how : Hows,
                start : 0..MaxBase, end_given : BOOLEAN]
    /\ arg.how # "Sentence" => (arg.start = 0 /\ ~arg.end_given)
    /\ pat = PatternInit(arg.src)
    /\ match_count = 0
    /\ sentences = <<>>
    /\ casks = <<>>
    /\ sections = <<>>
    /\ result = NoResult

\* Sentence(text, start=start[, end=start + len(text)])
NewSentence ==
    /\ pc = "Text"
    /\ arg.how = "Sentence"
    /\ sentences' = << SentenceInit(arg.text, 1, arg.start, arg.end_given,
                                    arg.start + Len(arg.text)) >>
    /\ casks' = << <<>> >>
    /\ pc' = "Sentence"
    /\ result' = [op |-> "Sentence"]
    /\ UNCHANGED <<arg, pat, match_count, sections>>

\* Sentences(text, ssplit=how)
NewSentences ==
    /\ pc = "Text"
    /\ arg.how # "Sentence"
    /\ \E r \in {SentencesInit(arg.text, 0, arg.how, <<>>)} :
           /\ sentences' = r.sentences
           /\ casks' = r.casks
    /\ pc' = "Sentences"
    /\ result' = [op |-> "Sentences"]
    /\ UNCHANGED <<arg, pat, match_count, sections>>

\* sentences[i].get_pattern(pat, index=, get_indices=)
CallSentenceGetPattern ==
    /\ pc \in {"Sentence", "Sentences"}
    /\ match_count < MaxCount
    /\ \E i \in 1..Len(sentences), index \in 0..1, gi \in BOOLEAN :
         \E r \in {SentenceGetPattern(sentences[i], pat, match_count, casks, index, gi)} :
             /\ result' = [op |-> "Sentence.get_pattern", sentence |-> i,
                           index |-> index, get_indices |-> gi, ret |-> r.ret]
             /\ match_count' = r.count
             /\ casks' = r.casks
    /\ UNCHANGED <<pc, arg, pat, sentences, sections>>

\* sentences.get_pattern(pat, index=, get_indices=)
CallSentencesGetPattern ==
    /\ pc = "Sentences"
    /\ match_count < MaxCount
    /\ \E index \in 0..1, gi \in BOOLEAN :
         \E r \in {SentencesGetPattern(sentences, pat, match_count, casks, index, gi)} :
             /\ result' = [op |-> "Sentences.get_pattern", sentence |-> 0,
                           index |-> index, get_indices |-> gi, ret |-> r.ret]
             /\ match_count' = r.count
             /\ casks' = r.casks
    /\ UNCHANGED <<pc, arg, pat, sentences, sections>>

NextSentence ==
    NewSentence \/ NewSentences \/ CallSentenceGetPattern \/ CallSentencesGetPattern

SpecSentence == InitSentence /\ [][NextSentence]_vars


---------------------------------------------------------------------------
(* Claims about Sentence and Sentences, checked under SpecSentence.          *)

\* The triple sentence i was constructed from: the arguments of Sentence(...)
\* itself, or the i-th triple Sentences kept from its splitter.
BuiltFrom(i) ==
    IF arg.how = "Sentence"
    THEN [s |-> arg.text, sidx |-> arg.start, eidx |-> arg.start + Len(arg.text)]
    ELSE KeepNonBlank(Ssplit(arg.how, arg.text))[i]

\* C2: a (text, start, end) that get_pattern(pat, get_indices=True) returns
\* indexes the un-trimmed text: for a Sentence built from T at offset base,
\* T[start-base:end-base] = text, whatever whitespace T starts or ends with
\* (for a sentence of a Sentences: T and base are the splitter's triple); and
\* for a Sentences built by pattern.py's default_ssplit, which Sentences uses
\* unless told otherwise, the offsets index the text that was split.
C2_OffsetsIndexOriginalText ==
    (/\ pc \in {"Sentence", "Sentences"}
     /\ result.op \in {"Sentence.get_pattern", "Sentences.get_pattern"}
     /\ result.get_indices /\ result.index = 0
     /\ result.ret.kind = "tuple") =>
        LET r == result.ret
        IN  /\ r.text # PyNone
            /\ \E i \in 1..Len(sentences) :
                  /\ result.sentence \in {0, i}
                  /\ LET b == BuiltFrom(i)
                     IN  Slice(b.s, r.start - b.sidx, r.end - b.sidx) = r.text
            /\ arg.how = "default_ssplit" =>
                  Slice(arg.text, r.start, r.end) = r.text

\* A Sentences whose first line does not match: the match returned lies in a
\* later sentence, behind leading whitespace.
C2_Witness ==
    /\ pc = "Sentences" /\ arg.how = "default_ssplit"
    /\ result.op = "Sentences.get_pattern"
    /\ result.get_indices /\ result.index = 0
    /\ result.ret.kind = "tuple"
    /\ Len(sentences) >= 2
    /\ result.ret.start >= 2

\* C3: every constructed Sentence has a text without leading or trailing
\* whitespace and end - start = len(text).
C3_TrimInvariant ==
    pc \in {"Sentence", "Sentences"} =>
        \A i \in 1..Len(sentences) :
            /\ sentences[i].text = Strip(sentences[i].text)
            /\ sentences[i].end - sentences[i].start = Len(sentences[i].text)


---------------------------------------------------------------------------
(* Section and Document (pattern.py:310-523).                               *)
(*                                                                           *)
(* The patterns of a document run are the Pattern objects DocPat(1..), named *)
(* by their index pid.  A world w is the mutable state the queries thread    *)
(* through: w.counts[pid] is pattern pid's match_count, w.casks the cask     *)
(* heap.  The document's own MatchCask is cask 1.                            *)

DocPatternArgs ==
    << PArg(Lit(a1), <<>>, <<>>, <<>>, 0),             \* (a)
       PArg(Lit(b1), <<>>, <<>>, <<>>, 0),             \* (b)
       PArg(Lit(a1), <<Lit(b1)>>, <<>>, <<>>, 0) >>    \* (a), negated by (b)

DocPat(pid) == PatternInit(DocPatternArgs[pid])

DocCask == 1

\* '\n'.join(texts)
RECURSIVE JoinNL(_)
JoinNL(texts) ==
    IF texts = <<>> THEN <<>>
    ELSE IF Len(texts) = 1 THEN Head(texts)
    ELSE Head(texts) \o <<NL>> \o JoinNL(Tail(texts))

\* pat.matches(text, ignore_negation=) for pattern pid in world w.  (The
\* patterns of a document run meet the precondition _compress_groups asserts,
\* so the call returns.)
PatMatches(pid, text, ignore_negation, w) ==
    Bind({ [ret |-> r.ret,
            w |-> [w EXCEPT !.counts[pid] = r.count]]
           : r \in {Matches(DocPat(pid), w.counts[pid], text, ignore_negation,
                            FALSE, FALSE)} })

\* A mutation of has_pattern: the match is counted but not added to the cask.
HasPatternInNoAdd(text, mc, pid, ignore_negation, w) ==
    Bind({ [ret |-> Truthy(r.ret), w |-> r.w]
           : r \in {PatMatches(pid, text, ignore_negation, w)} })

\* The has_pattern of Sentence (pattern.py:268-272), Section (327-331) and of
\* Document with by_sentence=False (428-431): match the text, add a match to
\* cask mc, answer bool(m).
HasPatternIn(text, mc, pid, ignore_negation, w) ==
    Bind({ IF Truthy(r.ret)
           THEN [ret |-> TRUE, w |-> [r.w EXCEPT !.casks = CaskAdd(@, mc, r.ret)]]
           ELSE [ret |-> FALSE, w |-> r.w]
           : r \in {PatMatches(pid, text, ignore_negation, w)} })

\* Sentence.has_pattern (pattern.py:268-272)
SentenceHasPattern(s, pid, ignore_negation, w) ==
    HasPatternIn(s.text, s.matches, pid, ignore_negation, w)

\* Sentence.has_patterns (pattern.py:274-280): one has_pattern call per
\* pattern until the answer is known.
RECURSIVE SentenceHasPatterns(_, _, _, _, _)
SentenceHasPatterns(s, pids, has_all, ignore_negation, w) ==
    IF pids = <<>> THEN [ret |-> has_all, w |-> w]
    ELSE Bind({ IF has_all /\ ~r.ret THEN [ret |-> FALSE, w |-> r.w]
                ELSE IF ~has_all /\ r.ret THEN [ret |-> TRUE, w |-> r.w]
                ELSE SentenceHasPatterns(s, Tail(pids), has_all, ignore_negation, r.w)
                : r \in {SentenceHasPattern(s, Head(pids), ignore_negation, w)} })

\* Sentences.has_pattern (pattern.py:211-215): the text of the first sentence
\* that has the pattern (a true value), else False.
RECURSIVE SentencesHasPattern(_, _, _, _)
SentencesHasPattern(ss, pid, ignore_negation, w) ==
    IF ss = <<>> THEN [ret |-> FALSE, w |-> w]
    ELSE Bind({ IF r.ret THEN [ret |-> Head(ss).text # <<>>, w |-> r.w]
                ELSE SentencesHasPattern(Tail(ss), pid, ignore_negation, r.w)
                : r \in {SentenceHasPattern(Head(ss), pid, ignore_negation, w)} })

\* MatchCask.copy (pattern.py:179-182): a new cask holding the same matches.
CaskCopy(cs, mc) == [casks |-> Append(cs, cs[mc]), ret |-> Len(cs) + 1]

\* MatchCask.add_all (pattern.py:176-177): extends cask mc in place; the
\* method has no return statement, so the call's value is None (0).
CaskAddAll(cs, mc, ms) == [casks |-> [cs EXCEPT ![mc] = @ \o ms], ret |-> 0]

\* Section.__init__ (pattern.py:312-325) with add_matches=False: mc = 0 is
\* None, and `mc or MatchCask()` then makes a new, empty cask.
SectionInit(sents, mc, cs) ==
    [section |-> [kind |-> "Section", sentences |-> sents,
                  text |-> JoinNL([i \in 1..Len(sents) |-> sents[i].text]),
                  matches |-> IF mc = 0 THEN Len(cs) + 1 ELSE mc],
     casks |-> IF mc = 0 THEN Append(cs, <<>>) ELSE cs]

\* Section.__bool__ (pattern.py:362-363)
SectionBool(sec) == Len(sec.sentences) > 0 /\ Strip(sec.text) # <<>>

\* Section.has_pattern (pattern.py:327-331)
SectionHasPattern(sec, pid, ignore_negation, w) ==
    HasPatternIn(sec.text, sec.matches, pid, ignore_negation, w)

\* A mutation of Section.has_patterns: the answer for an exhausted list is
\* False whatever has_all is.
RECURSIVE SectionHasPatternsFalseAtEnd(_, _, _, _, _, _, _)
SectionHasPatternsFalseAtEnd(sec, pids, has_all, ignore_negation, get_count, cnt, w) ==
    IF pids = <<>>
    THEN [ret |-> IF get_count THEN [kind |-> "int", v |-> cnt]
                  ELSE [kind |-> "bool", v |-> FALSE],
          w |-> w]
    ELSE Bind({ IF get_count
                THEN SectionHasPatternsFalseAtEnd(sec, Tail(pids), FALSE, ignore_negation,
                        get_count, IF r.ret THEN cnt + 1 ELSE cnt, r.w)
                ELSE IF has_all /\ ~r.ret THEN [ret |-> [kind |-> "bool", v |-> FALSE], w |-> r.w]
                ELSE IF ~has_all /\ r.ret THEN [ret |-> [kind |-> "bool", v |-> TRUE], w |-> r.w]
                ELSE SectionHasPatternsFalseAtEnd(sec, Tail(pids), has_all, ignore_negation,
                        get_count, cnt, r.w)
                : r \in {SectionHasPattern(sec, Head(pids), ignore_negation, w)} })

\* Section.has_patterns (pattern.py:337-360); cnt is the running count (0 at
\* the call).  get_count forces has_all to False and makes the call count the
\* patterns that match; otherwise the loop returns as soon as the answer is
\* known, and has_all for an exhausted list.
RECURSIVE SectionHasPatterns(_, _, _, _, _, _, _)
SectionHasPatterns(sec, pids, has_all, ignore_negation, get_count, cnt, w) ==
    IF pids = <<>>
    THEN [ret |-> IF get_count THEN [kind |-> "int", v |-> cnt]
                  ELSE [kind |-> "bool", v |-> has_all],
          w |-> w]
    ELSE Bind({ IF get_count
                THEN SectionHasPatterns(sec, Tail(pids), FALSE, ignore_negation,
                        get_count, IF r.ret THEN cnt + 1 ELSE cnt, r.w)
                ELSE IF has_all /\ ~r.ret THEN [ret |-> [kind |-> "bool", v |-> FALSE], w |-> r.w]
                ELSE IF ~has_all /\ r.ret THEN [ret |-> [kind |-> "bool", v |-> TRUE], w |-> r.w]
                ELSE SectionHasPatterns(sec, Tail(pids), has_all, ignore_negation,
                        get_count, cnt, r.w)
                : r \in {SectionHasPattern(sec, Head(pids), ignore_negation, w)} })

\* What `yield from x` yields for the value x that Sentence.get_pattern
\* returned: the characters of a string, the three elements of a tuple;
\* None is not iterable.
YieldFrom(ret) ==
    IF ret.kind = "str" /\ ret.text # PyNone
    THEN [kind |-> "items", items |-> [i \in 1..Len(ret.text) |-> <<ret.text[i]>>]]
    ELSE IF ret.kind = "tuple"
    THEN [kind |-> "items", items |-> <<ret.text, <<ret.start>>, <<ret.end>>>>]
    ELSE Raise("TypeError")

\* list(section.get_pattern(pat, index=, get_indices=)) (pattern.py:333-335):
\* the generator run to its end.  ret is the list of what it yielded, or the
\* exception that ended it.
RECURSIVE SectionGetPattern(_, _, _, _, _, _)
SectionGetPattern(sents, pid, index, get_indices, yielded, w) ==
    IF sents = <<>> THEN [ret |-> [kind |-> "list", items |-> yielded], w |-> w]
    ELSE Bind({ Bind({ IF y.kind = "raise"
                       THEN [ret |-> y, w |-> [counts |-> [w.counts EXCEPT ![pid] = r.count],
                                               casks |-> r.casks]]
                       ELSE SectionGetPattern(Tail(sents), pid, index, get_indices,
                               yielded \o y.items,
                               [counts |-> [w.counts EXCEPT ![pid] = r.count],
                                casks |-> r.casks])
                       : y \in {YieldFrom(r.ret)} })
                : r \in {SentenceGetPattern(Head(sents), DocPat(pid), w.counts[pid],
                                            w.casks, index, get_indices)} })

\* Section.__add__ (pattern.py:365-366):
\*   Section(self.sentences + other.sentences,
\*           self.matches.copy().add_all(other.matches.matches))
\* The copy is extended in place and add_all's value, None, is what Section
\* receives as its cask.
SectionAdd(left, right, cs) ==
    Bind({ Bind({ SectionInit(left.sentences \o right.sentences, ext.ret, ext.casks)
                  : ext \in {CaskAddAll(cp.casks, cp.ret, cp.casks[right.matches])} })
           : cp \in {CaskCopy(cs, left.matches)} })

\* Document._clean_text (pattern.py:398-406): re.sub(r': *\n', ': ', text).
RECURSIVE CleanText(_)
CleanText(text) ==
    IF text = <<>> THEN <<>>
    ELSE IF Head(text) = ":"
    THEN Bind({ IF n + 2 <= Len(text) /\ text[n + 2] = NL
                THEN <<":", SP>> \o CleanText(SubSeq(text, n + 3, Len(text)))
                ELSE <<":">> \o CleanText(Tail(text))
                : n \in {Min({k \in 0..(Len(text) - 1) :
                              k + 2 > Len(text) \/ text[k + 2] # SP})} })
    ELSE <<Head(text)>> \o CleanText(Tail(text))

\* Document.__init__ (pattern.py:386-396) from a text: ValueError for an empty
\* text; else a cask of its own, and the sentences of the cleaned text, all
\* sharing that cask.  (HISTORY_REMOVAL changes nothing in a text that holds
\* no 'HISTORY:', as the texts here.)
DocumentInit(text) ==
    IF text = <<>> THEN Raise("ValueError")
    ELSE Bind({ [kind |-> "Document", sentences |-> r.sentences, casks |-> r.casks]
                : r \in {SentencesInit(CleanText(text), DocCask, "default_ssplit",
                                       << <<>> >>)} })

\* The sentence indices one hit contributes (pattern.py:475-480, 492-497):
\* i itself and, for j in range(neighboring_sentences), i + j and i - j where
\* they exist.  Indices are Python's, from 0.
HitWindow(i, n, r) ==
    {i} \cup {i + j : j \in {j \in 0..(r - 1) : i + j < n}}
        \cup {i - j : j \in {j \in 0..(r - 1) : i - j >= 0}}

\* sorted(list(S)) of a set of integers
RECURSIVE Sorted(_)
Sorted(S) == IF S = {} THEN <<>> ELSE <<Min(S)>> \o Sorted(S \ {Min(S)})

\* [self.sentences[i] for i in idxs]
Pick(ss, idxs) == [k \in 1..Len(idxs) |-> ss[idxs[k] + 1]]

\* The hit test of both select operations (pattern.py:471-474, 488-491):
\* sentence.has_patterns(*pats, has_all=has_all), and then, with a non-empty
\* negation, not sentence.has_patterns(*negation).
IsHit(s, pats, negation, has_all, w) ==
    Bind({ IF ~r.ret THEN r
           ELSE IF negation = <<>> THEN r
           ELSE Bind({ [ret |-> ~q.ret, w |-> q.w]
                       : q \in {SentenceHasPatterns(s, negation, FALSE, FALSE, r.w)} })
           : r \in {SentenceHasPatterns(s, pats, has_all, FALSE, w)} })

\* list(doc.select_sentences_with_patterns(...)) (pattern.py:467-482): the
\* generator run to its end, from sentence i on; out are the Sections yielded
\* so far.
RECURSIVE SelectSentences(_, _, _, _, _, _, _, _)
SelectSentences(ss, pats, negation, has_all, r, i, out, w) ==
    IF i >= Len(ss) THEN [ret |-> out, w |-> w]
    ELSE Bind({ SelectSentences(ss, pats, negation, has_all, r, i + 1,
                    IF h.ret
                    THEN Append(out, SectionInit(Pick(ss, Sorted(HitWindow(i, Len(ss), r))),
                                                 DocCask, h.w.casks).section)
                    ELSE out,
                    h.w)
                : h \in {IsHit(ss[i + 1], pats, negation, has_all, w)} })

\* The loop of select_all_sentences_with_patterns (pattern.py:486-497): the
\* set of collected indices.
RECURSIVE CollectAll(_, _, _, _, _, _, _, _)
CollectAll(ss, pats, negation, has_all, r, i, sents, w) ==
    IF i >= Len(ss) THEN [ret |-> sents, w |-> w]
    ELSE Bind({ CollectAll(ss, pats, negation, has_all, r, i + 1,
                    IF h.ret THEN sents \cup HitWindow(i, Len(ss), r) ELSE sents,
                    h.w)
                : h \in {IsHit(ss[i + 1], pats, negation, has_all, w)} })

\* A mutation of select_all_sentences_with_patterns: get_range is ignored.
SelectAllNoRange(ss, pats, negation, has_all, get_range, r, w) ==
    Bind({ Bind({ IF sents = <<>> THEN [ret |-> PyNoneRet, w |-> c.w]
                  ELSE IF Len(sents) = 1
                  THEN [ret |-> SectionInit(<<ss[sents[1] + 1]>>, DocCask, c.w.casks).section,
                        w |-> c.w]
                  ELSE [ret |-> SectionInit(Pick(ss, sents), DocCask, c.w.casks).section,
                        w |-> c.w]
                  : sents \in {Sorted(c.ret)} })
           : c \in {CollectAll(ss, pats, negation, has_all, r, 0, {}, w)} })

\* Document.select_all_sentences_with_patterns (pattern.py:484-506)
SelectAll(ss, pats, negation, has_all, get_range, r, w) ==
    Bind({ Bind({ IF sents = <<>> THEN [ret |-> PyNoneRet, w |-> c.w]
                  ELSE IF Len(sents) = 1
                  THEN [ret |-> SectionInit(<<ss[sents[1] + 1]>>, DocCask, c.w.casks).section,
                        w |-> c.w]
                  ELSE IF get_range
                  THEN [ret |-> SectionInit(SubSeq(ss, sents[1] + 1, sents[Len(sents)] + 1),
                                            DocCask, c.w.casks).section,
                        w |-> c.w]
                  ELSE [ret |-> SectionInit(Pick(ss, sents), DocCask, c.w.casks).section,
                        w |-> c.w]
                  : sents \in {Sorted(c.ret)} })
           : c \in {CollectAll(ss, pats, negation, has_all, r, 0, {}, w)} })

\* Document.has_pattern (pattern.py:417-431); text is Document.text.
DocHasPattern(text, ss, pid, ignore_negation, by_sentence, w) ==
    IF by_sentence THEN SentencesHasPattern(ss, pid, ignore_negation, w)
    ELSE HasPatternIn(text, DocCask, pid, ignore_negation, w)


---------------------------------------------------------------------------
(* Inputs of the document runs.                                             *)

MaxSents == 3      \* most lines of a document text
MaxRadius == 2     \* largest neighboring_sentences passed to a select

\* The lines documents are made of: 'a', 'b', 'ab' and a blank line (which
\* Sentences drops).
DocLines == {a1, b1, a1 \o b1, <<SP>>}

DocTexts ==
    {JoinNL(ls) : ls \in UNION {[1..k -> DocLines] : k \in 1..MaxSents}} \ {<<>>}

\* The *pats and negation= arguments tried.
PatLists == {<<>>, <<1>>, <<1, 2>>, <<3>>}
NegLists == {<<>>, <<2>>}

ZeroCounts == [pid \in 1..Len(DocPatternArgs) |-> 0]

\* The state after doc = Document(name, text=arg.text).
DocumentBuilt(texts) ==
    /\ arg \in [text : texts]
    /\ \E d \in {DocumentInit(arg.text)} :
         /\ d.kind = "Document"
         /\ sentences = d.sentences
         /\ casks = d.casks
    /\ pat = NoPattern
    /\ match_count = ZeroCounts
    /\ sections = <<>>
    /\ result = NoResult

---------------------------------------------------------------------------
(* The select runs: one select call on a freshly built document, its        *)
(* generator consumed to the end.                                           *)

InitSelect == pc = "Document" /\ DocumentBuilt(DocTexts)

\* list(doc.select_sentences_with_patterns(*pats, negation=, has_all=,
\*                                         neighboring_sentences=))
CallSelectSentences ==
    /\ pc = "Document"
    /\ \E pats \in PatLists, negation \in NegLists, has_all \in BOOLEAN, r \in 0..MaxRadius :
         \E x \in {SelectSentences(sentences, pats, negation, has_all, r, 0, <<>>,
                                   [counts |-> match_count, casks |-> casks])} :
             /\ sections' = x.ret
             /\ match_count' = x.w.counts
             /\ casks' = x.w.casks
             /\ result' = [op |-> "select_sentences_with_patterns", pats |-> pats,
                           negation |-> negation, has_all |-> has_all,
                           get_range |-> FALSE, r |-> r, ret |-> "list"]
    /\ pc' = "selected"
    /\ UNCHANGED <<arg, pat, sentences>>

\* doc.select_all_sentences_with_patterns(*pats, negation=, has_all=,
\*                                        get_range=, neighboring_sentences=)
CallSelectAll ==
    /\ pc = "Document"
    /\ \E pats \in PatLists, negation \in NegLists, has_all \in BOOLEAN,
          get_range \in BOOLEAN, r \in 0..MaxRadius :
         \E x \in {SelectAll(sentences, pats, negation, has_all, get_range, r,
                             [counts |-> match_count, casks |-> casks])} :
             /\ sections' = IF x.ret.kind = "None" THEN <<>> ELSE <<x.ret>>
             /\ match_count' = x.w.counts
             /\ casks' = x.w.casks
             /\ result' = [op |-> "select_all_sentences_with_patterns", pats |-> pats,
                           negation |-> negation, has_all |-> has_all,
                           get_range |-> get_range, r |-> r,
                           ret |-> IF x.ret.kind = "None" THEN "None" ELSE "Section"]
    /\ pc' = "selected"
    /\ UNCHANGED <<arg, pat, sentences>>

NextSelect == CallSelectSentences \/ CallSelectAll

SpecSelect == InitSelect /\ [][NextSelect]_vars

---------------------------------------------------------------------------
(* Claims about the select operations, checked under SpecSelect.            *)

\* Pattern p accepts text: its primary regex occurs and no active constraint
\* fails.
Accepts(p, text, ignore_negation) ==
    /\ PrimaryHits(p, text) # {}
    /\ ignore_negation \/ \A i \in 1..Len(p.negates) : ~Occurs(p.negates[i], text)
    /\ p.requires = <<>> \/ \E i \in 1..Len(p.requires) : Occurs(p.requires[i], text)
    /\ \A i \in 1..Len(p.requires_all) : Occurs(p.requires_all[i], text)

\* The pattern predicate of the selects on one text: all (has_all) or one of
\* pats accept it, and no pattern of negation does.
Qualifies(text, pats, negation, has_all) ==
    /\ IF has_all THEN \A k \in 1..Len(pats) : Accepts(DocPat(pats[k]), text, FALSE)
       ELSE \E k \in 1..Len(pats) : Accepts(DocPat(pats[k]), text, FALSE)
    /\ ~\E k \in 1..Len(negation) : Accepts(DocPat(negation[k]), text, FALSE)

\* The qualifying sentence indices (Python's, from 0) of the last select call.
Hits ==
    {i \in 0..(Len(sentences) - 1) :
        Qualifies(sentences[i + 1].text, result.pats, result.negation, result.has_all)}

\* C4: select_sentences_with_patterns yields, in ascending order of i, one
\* Section per qualifying sentence index i, holding the sentences
\* max(0, i-r) .. min(n-1, i+r) in ascending order.
C4_SelectYieldsClampedWindows ==
    (pc = "selected" /\ result.op = "select_sentences_with_patterns") =>
        LET n == Len(sentences)
            hs == Sorted(Hits)
            lo(i) == IF i - result.r < 0 THEN 0 ELSE i - result.r
            hi(i) == IF i + result.r > n - 1 THEN n - 1 ELSE i + result.r
        IN  /\ Len(sections) = Len(hs)
            /\ \A k \in 1..Len(hs) :
                  sections[k].sentences = SubSeq(sentences, lo(hs[k]) + 1, hi(hs[k]) + 1)

\* C9: select_all_sentences_with_patterns returns None exactly when no
\* sentence qualifies; otherwise one Section over the sorted set of collected
\* indices (each qualifying index i and the indices less than
\* neighboring_sentences away from it): the single sentence if the set has
\* one index; with get_range every sentence from the first to the last
\* collected index; else exactly the collected sentences in ascending order.
C9_SelectAllResult ==
    (pc = "selected" /\ result.op = "select_all_sentences_with_patterns") =>
        LET n == Len(sentences)
            near(i, k) == k = i \/ (k - i < result.r /\ i - k < result.r)
            coll == {k \in 0..(n - 1) : \E i \in Hits : near(i, k)}
        IN  /\ (result.ret = "None") <=> (Hits = {})
            /\ Hits = {} => sections = <<>>
            /\ Hits # {} =>
                  /\ Len(sections) = 1
                  /\ sections[1].matches = DocCask
                  /\ sections[1].sentences =
                        IF Cardinality(coll) = 1 THEN <<sentences[Min(coll) + 1]>>
                        ELSE IF result.get_range
                        THEN SubSeq(sentences, Min(coll) + 1, Max(coll) + 1)
                        ELSE Pick(sentences, Sorted(coll))

\* A get_range call whose Section takes in a sentence that was not collected.
C9_Witness ==
    /\ pc = "selected" /\ result.op = "select_all_sentences_with_patterns"
    /\ result.get_range /\ result.r = 0
    /\ Cardinality(Hits) = 2
    /\ Len(sections) = 1 /\ Len(sections[1].sentences) = 3


---------------------------------------------------------------------------
(* The section runs: on a built document, derive Sections with              *)
(* select_all_sentences_with_patterns and Section + Section, and query the   *)
(* document and the Sections.                                                *)

MaxSections == 2      \* most Section objects kept
MaxMatches == 2       \* queries are made while fewer matches than this were counted
MaxSectionSents == 2  \* most lines of a document text in the section runs

SectionDocTexts ==
    {JoinNL(ls) : ls \in UNION {[1..k -> {a1, b1}] : k \in 1..MaxSectionSents}}

RECURSIVE SumSeq(_)
SumSeq(ns) == IF ns = <<>> THEN 0 ELSE Head(ns) + SumSeq(Tail(ns))

\* ignore_negation=True is tried where a pattern of the call has negations.
IgnoreNegations(pats) ==
    {FALSE} \cup {TRUE : i \in {i \in 1..Len(pats) : DocPat(pats[i]).negates # <<>>}}

\* The Section queried is the one made last.
Newest == {Len(sections)} \ {0}

World == [counts |-> match_count, casks |-> casks]

InitSection == pc = "Sections" /\ DocumentBuilt(SectionDocTexts)

\* sections.append(doc.select_all_sentences_with_patterns(*pats,
\* neighboring_sentences=r)) when the call returns a Section
DeriveSection ==
    /\ pc = "Sections"
    /\ Len(sections) < MaxSections
    /\ SumSeq(match_count) < MaxMatches
    /\ \E pats \in {<<1>>}, r \in {0, 2} :
         \E x \in {SelectAll(sentences, pats, <<>>, FALSE, FALSE, r, World)} :
             /\ sections' = IF x.ret.kind = "None" THEN sections ELSE Append(sections, x.ret)
             /\ match_count' = x.w.counts
             /\ casks' = x.w.casks
             /\ result' = [op |-> "select_all_sentences_with_patterns", pats |-> pats,
                           r |-> r, ret |-> [kind |-> x.ret.kind]]
    /\ UNCHANGED <<pc, arg, pat, sentences>>

\* sections.append(sections[k] + sections[j])
CallSectionAdd ==
    /\ pc = "Sections"
    /\ Len(sections) < MaxSections
    /\ \E k \in 1..Len(sections), j \in 1..Len(sections) :
         \E x \in {SectionAdd(sections[k], sections[j], casks)} :
             /\ sections' = Append(sections, x.section)
             /\ casks' = x.casks
             /\ result' = [op |-> "Section.__add__", left |-> k, right |-> j,
                           ret |-> [kind |-> "Section"]]
    /\ UNCHANGED <<pc, arg, pat, match_count, sentences>>

\* sections[k].has_patterns(*pats, has_all=, ignore_negation=, get_count=);
\* get_count=True is tried with has_all=False, the value it forces.
CallSectionHasPatterns ==
    /\ pc = "Sections"
    /\ SumSeq(match_count) < MaxMatches
    /\ \E k \in Newest, pats \in PatLists, has_all \in BOOLEAN :
       \E ign \in IgnoreNegations(pats), get_count \in {FALSE} \cup {~has_all} :
         \E x \in {SectionHasPatterns(sections[k], pats, has_all, ign, get_count, 0, World)} :
             /\ match_count' = x.w.counts
             /\ casks' = x.w.casks
             /\ result' = [op |-> "Section.has_patterns", section |-> k, pats |-> pats,
                           has_all |-> has_all, ignore_negation |-> ign,
                           get_count |-> get_count, ret |-> x.ret]
    /\ UNCHANGED <<pc, arg, pat, sentences, sections>>

\* list(sections[k].get_pattern(pat, index=, get_indices=))
CallSectionGetPattern ==
    /\ pc = "Sections"
    /\ SumSeq(match_count) < MaxMatches
    /\ \E k \in Newest, pid \in 1..Len(DocPatternArgs), gi \in BOOLEAN :
         \E x \in {SectionGetPattern(sections[k].sentences, pid, 0, gi, <<>>, World)} :
             /\ match_count' = x.w.counts
             /\ casks' = x.w.casks
             /\ result' = [op |-> "Section.get_pattern", section |-> k, pats |-> <<pid>>,
                           get_indices |-> gi, ret |-> x.ret]
    /\ UNCHANGED <<pc, arg, pat, sentences, sections>>

\* doc.has_pattern(pat, ignore_negation=, by_sentence=)
CallDocHasPattern ==
    /\ pc = "Sections"
    /\ SumSeq(match_count) < MaxMatches
    /\ \E pid \in 1..Len(DocPatternArgs), by_sentence \in BOOLEAN :
       \E ign \in IgnoreNegations(<<pid>>) :
         \E x \in {DocHasPattern(arg.text, sentences, pid, ign, by_sentence, World)} :
             /\ match_count' = x.w.counts
             /\ casks' = x.w.casks
             /\ result' = [op |-> "Document.has_pattern", pats |-> <<pid>>,
                           ignore_negation |-> ign, by_sentence |-> by_sentence,
                           ret |-> [kind |-> "bool", v |-> x.ret]]
    /\ UNCHANGED <<pc, arg, pat, sentences, sections>>

NextSection ==
    \/ DeriveSection
    \/ CallSectionAdd
    \/ CallSectionHasPatterns
    \/ CallSectionGetPattern
    \/ CallDocHasPattern

SpecSection == InitSection /\ [][NextSection]_vars

---------------------------------------------------------------------------
(* Claims about Sections and the match history, checked under SpecSection.  *)

\* The last call made was op.
Did(op) == result # NoResult /\ result.op = op

\* C5: Section + Section returns a new Section whose sentence list is the
\* left operand's sentences followed by the right operand's, and whose match
\* cask is a new cask holding the left operand's matches followed by the
\* right operand's.
C5_AddConcatenates ==
    Did("Section.__add__") =>
        LET new == sections[Len(sections)]
            left == sections[result.left]
            right == sections[result.right]
        IN  /\ new.sentences = left.sentences \o right.sentences
            /\ new.matches \notin {left.matches, right.matches}
            /\ casks[new.matches] = casks[left.matches] \o casks[right.matches]

\* C7: no query raises: whatever the last call was, it returned a value.
C7_QueriesNeverRaise == result # NoResult => result.ret.kind # "raise"

\* C8: without count mode, Section.has_patterns with has_all answers whether
\* every pattern of the list accepts the Section's joined text, and without
\* has_all whether at least one does; for the empty list that is True with
\* has_all and False without.
C8_SectionHasPatterns ==
    (Did("Section.has_patterns") /\ ~result.get_count) =>
        LET text == sections[result.section].text
            ok(k) == Accepts(DocPat(result.pats[k]), text, result.ignore_negation)
        IN  result.ret = [kind |-> "bool",
                          v |-> IF result.has_all
                                THEN \A k \in 1..Len(result.pats) : ok(k)
                                ELSE \E k \in 1..Len(result.pats) : ok(k)]

\* has_all=True answered True for two patterns that occur in different
\* sentences of a two-sentence Section.
C8_Witness ==
    /\ Did("Section.has_patterns") /\ ~result.get_count /\ result.has_all
    /\ result.pats = <<1, 2>>
    /\ result.ret = [kind |-> "bool", v |-> TRUE]
    /\ Len(sections[result.section].sentences) = 2

\* The matches a step appended to the document's cask.
Appended == SubSeq(casks'[DocCask], Len(casks[DocCask]) + 1, Len(casks'[DocCask]))

IsPrefix(s, t) == Len(s) <= Len(t) /\ SubSeq(t, 1, Len(s)) = s

\* The patterns of a Section.has_patterns call that the loop reached and that
\* accepted text, in the order of the call.
AcceptedInOrder(pats, text, has_all, ignore_negation, get_count) ==
    LET ok(k) == Accepts(DocPat(pats[k]), text, ignore_negation)
        stop == {k \in 1..Len(pats) :
                    ~get_count /\ (IF has_all THEN ~ok(k) ELSE ok(k))}
        last == IF stop = {} THEN Len(pats) ELSE Min(stop)
    IN  SelectSeq([k \in 1..last |-> k], ok)

\* The step evaluated patterns on the document, on its sentences, or on a
\* Section that holds the document's cask.
EvaluatedOnDocumentCask ==
    /\ result' # NoResult
    /\ \/ result'.op \in {"select_all_sentences_with_patterns", "Document.has_pattern",
                          "Section.get_pattern"}
       \/ /\ result'.op = "Section.has_patterns"
          /\ sections[result'.section].matches = DocCask

\* The step evaluated patterns on any Section, sums of Sections included.
EvaluatedAnywhere ==
    /\ result' # NoResult
    /\ result'.op \in {"select_all_sentences_with_patterns", "Document.has_pattern",
                       "Section.get_pattern", "Section.has_patterns"}

\* What a step does to the document's cask when it is the shared history of
\* the objects in scope: the cask is only extended, by one entry per
\* successful match of the step, and a Section.has_patterns call appends the
\* matches of the accepted patterns in the order of the call.
FeedsDocumentCask ==
    /\ IsPrefix(casks[DocCask], casks'[DocCask])
    /\ Len(Appended) = SumSeq(match_count') - SumSeq(match_count)
    /\ result'.op = "Section.has_patterns" =>
          LET text == sections[result'.section].text
              acc == AcceptedInOrder(result'.pats, text, result'.has_all,
                                     result'.ignore_negation, result'.get_count)
          IN  /\ Len(Appended) = Len(acc)
              /\ \A j \in 1..Len(acc) :
                    /\ Appended[j].string = text
                    /\ Appended[j].start = Min(PrimaryHits(DocPat(result'.pats[acc[j]]), text))

\* C6 as stated: every Sentence and every derived Section holds the
\* document's cask, and every evaluation on the document, its sentences or a
\* derived Section appends its successful matches, in order, to that cask,
\* which is otherwise left as it was.
C6_SharedMatchHistory ==
    [][ /\ \A i \in 1..Len(sentences') : sentences'[i].matches = DocCask
        /\ \A k \in 1..Len(sections') : sections'[k].matches = DocCask
        /\ IsPrefix(casks[DocCask], casks'[DocCask])
        /\ EvaluatedAnywhere => FeedsDocumentCask ]_vars

\* C6, amended: every Sentence of the document and every Section returned by
\* a select operation holds the document's cask; an evaluation on the
\* document, on its sentences or on such a Section appends its successful
\* matches, in order, to that cask; no step removes, replaces or reorders
\* entries of the cask.  A Section made by Section + Section holds a cask of
\* its own, and its has_patterns records its matches there, leaving the
\* document's cask as it was.
C6_SelectedSectionsShareHistory ==
    [][ /\ \A i \in 1..Len(sentences') : sentences'[i].matches = DocCask
        /\ (result' # NoResult /\ result'.op = "select_all_sentences_with_patterns"
               /\ result'.ret.kind = "Section")
              => sections'[Len(sections')].matches = DocCask
        /\ (result' # NoResult /\ result'.op = "Section.__add__")
              => sections'[Len(sections')].matches # DocCask
        /\ (result' # NoResult /\ result'.op = "Section.has_patterns"
               /\ sections[result'.section].matches # DocCask)
              => /\ casks'[DocCask] = casks[DocCask]
                 /\ Len(casks'[sections[result'.section].matches])
                        - Len(casks[sections[result'.section].matches])
                      = SumSeq(match_count') - SumSeq(match_count)
        /\ IsPrefix(casks[DocCask], casks'[DocCask])
        /\ EvaluatedOnDocumentCask => FeedsDocumentCask ]_vars

\* A Section.has_patterns call on a selected Section found both of its
\* patterns, and the document's cask, which already held the matches of the
\* select, ends with the two new matches.
C6_Witness ==
    /\ Did("Section.has_patterns") /\ result.pats = <<1, 2>> /\ result.has_all
    /\ result.ret = [kind |-> "bool", v |-> TRUE]
    /\ sections[result.section].matches = DocCask
    /\ Len(casks[DocCask]) >= 3
    /\ casks[DocCask][Len(casks[DocCask])].string = sections[result.section].text

---------------------------------------------------------------------------
(* The compression runs: Pattern._compress_groups applied to the raw groups  *)
(* of one match of an alternation of MaxAlts or fewer alternatives with k    *)
(* capture groups each.  The groups of the alternative that matched hold     *)
(* text, or None where an optional group such as (a)? took no part; the      *)
(* groups of the other alternatives are None.                                *)

MaxAlts == 3   \* most alternatives of the alternation
MaxK == 2      \* largest capture_length

GroupValues == {PyNone, a1, b1}

\* m.groups() of a match of alternative j of n, whose own groups are block.
RECURSIVE GroupsOf(_, _, _, _)
GroupsOf(n, j, block, i) ==
    IF i > n THEN <<>>
    ELSE (IF i = j THEN block ELSE [x \in 1..Len(block) |-> PyNone])
         \o GroupsOf(n, j, block, i + 1)

CompressInputs ==
    UNION { [n : {n}, k : {k}, j : 1..n, block : [1..k -> GroupValues]]
            : n \in 1..MaxAlts, k \in 1..MaxK }

InitCompress ==
    /\ pc = "Compress"
    /\ arg \in CompressInputs
    /\ pat = NoPattern
    /\ match_count = 0
    /\ sentences = <<>>
    /\ casks = <<>>
    /\ sections = <<>>
    /\ result = NoResult

\* pat._compress_groups(m) for a pattern with capture_length = arg.k
CallCompressGroups ==
    /\ pc = "Compress"
    /\ \E cg \in {CompressGroups([capture_length |-> arg.k],
                                 [groups |-> GroupsOf(arg.n, arg.j, arg.block, 1)])} :
           result' = [op |-> "_compress_groups", ret |-> cg]
    /\ pc' = "Compress.done"
    /\ UNCHANGED <<arg, pat, match_count, sentences, casks, sections>>

NextCompress == CallCompressGroups

SpecCompress == InitCompress /\ [][NextCompress]_vars

\* C11 as stated: the compressed groups of any match are the k groups of the
\* alternative that matched.
C11_CompressedIsMatchedAlternative ==
    pc = "Compress.done" => (result.ret.kind = "groups" /\ arg.block = result.ret.v)

\* C11, amended: when the first group of the alternative that matched took
\* part in the match, the compressed groups are the k groups of that
\* alternative; when it did not, no block starts with a non-null group and
\* the compressed groups are None.
C11_CompressedIsFirstLiveBlock ==
    pc = "Compress.done" =>
        result.ret = [kind |-> "groups",
                      v |-> IF arg.block[1] # PyNone THEN arg.block ELSE PyNone]

\* The third of three alternatives matched and its two groups came back.
C11_Witness ==
    /\ pc = "Compress.done"
    /\ arg.n = 3 /\ arg.j = 3 /\ arg.k = 2
    /\ arg.block = <<a1, b1>>
    /\ result.ret.v = <<a1, b1>>

---------------------------------------------------------------------------
(* The enumerating runs: build one Sentence or one Sentences, then list all  *)
(* matches of a pattern with get_patterns.                                   *)

\* list(pat.finditer(text)) from offset `from` on (pattern.py:110-122): the
\* non-overlapping matches of the primary regex from left to right; each one
\* that _confirm_match(text) lets through is counted, compressed and yielded.
\* ret is the list of Match objects or the exception that ended the generator.
RECURSIVE FindIter(_, _, _, _, _)
FindIter(p, count, text, from, yielded) ==
    Bind({ IF ~Found(m)
           THEN [ret |-> [kind |-> "list", items |-> yielded], count |-> count]
           ELSE IF ~ConfirmMatch(p, text, FALSE, FALSE, FALSE).ok
           THEN FindIter(p, count, text, m.end, yielded)
           ELSE Bind({ IF cg.kind = "raise" THEN [ret |-> cg, count |-> count + 1]
                       ELSE FindIter(p, count + 1, text, m.end,
                                     Append(yielded, MkMatch(m, text, cg.v)))
                       : cg \in {CompressGroups(p, m)} })
           : m \in {SearchFrom(p.pattern, text, from)} })

RECURSIVE CaskAddEach(_, _, _)
CaskAddEach(cs, mc, ms) ==
    IF ms = <<>> THEN cs ELSE CaskAddEach(CaskAdd(cs, mc, Head(ms)), mc, Tail(ms))

\* list(sentence.get_patterns(pat, index=)) (pattern.py:298-307): every match
\* finditer yields is added to the sentence's cask and gives the triple
\* (m.group(index), m.start(index), m.end(index)).
SentenceGetPatterns(s, p, count, cs, index) ==
    Bind({ IF f.ret.kind = "raise" THEN [ret |-> f.ret, count |-> f.count, casks |-> cs]
           ELSE [ret |-> [kind |-> "list",
                          items |-> [j \in 1..Len(f.ret.items) |->
                                        [text |-> MatchGroup(f.ret.items[j], index),
                                         start |-> MatchStart(f.ret.items[j], index),
                                         end |-> MatchEnd(f.ret.items[j], index)]]],
                 count |-> f.count,
                 casks |-> CaskAddEach(cs, s.matches, f.ret.items)]
           : f \in {FindIter(p, count, s.text, 0, <<>>)} })

\* list(sentences.get_patterns(pat, index=)) (pattern.py:237-239)
RECURSIVE SentencesGetPatterns(_, _, _, _, _, _)
SentencesGetPatterns(ss, p, count, cs, index, yielded) ==
    IF ss = <<>> THEN [ret |-> [kind |-> "list", items |-> yielded],
                       count |-> count, casks |-> cs]
    ELSE Bind({ IF r.ret.kind = "raise" THEN r
                ELSE SentencesGetPatterns(Tail(ss), p, r.count, r.casks, index,
                                          yielded \o r.ret.items)
                : r \in {SentenceGetPatterns(Head(ss), p, count, cs, index)} })

EnumTexts == TextsOver({"a", "b", SP, NL}, MaxSentLen)

EnumPatternArgs ==
    { PArg(AorB, <<>>, <<>>, <<>>, 0),
      PArg(AorB, <<>>, <<>>, <<>>, 1),
      PArg(Lit(a1), <<Lit(b1)>>, <<>>, <<>>, 0) }

InitEnumerate ==
    /\ pc = "Text"
    /\ arg \in [src : EnumPatternArgs, text : EnumTexts,
                how : {"Sentence", "default_ssplit"}, start : {0}, end_given : {FALSE}]
    /\ pat = PatternInit(arg.src)
    /\ match_count = 0
    /\ sentences = <<>>
    /\ casks = <<>>
    /\ sections = <<>>
    /\ result = NoResult

\* list(sentences[i].get_patterns(pat, index=))
CallSentenceGetPatterns ==
    /\ pc \in {"Sentence", "Sentences"}
    /\ match_count < MaxCount
    /\ \E i \in 1..Len(sentences), index \in 0..1 :
         \E r \in {SentenceGetPatterns(sentences[i], pat, match_count, casks, index)} :
             /\ result' = [op |-> "Sentence.get_patterns", sentence |-> i,
                           index |-> index, ret |-> r.ret]
             /\ match_count' = r.count
             /\ casks' = r.casks
    /\ UNCHANGED <<pc, arg, pat, sentences, sections>>

\* list(sentences.get_patterns(pat, index=))
CallSentencesGetPatterns ==
    /\ pc = "Sentences"
    /\ match_count < MaxCount
    /\ \E index \in 0..1 :
         \E r \in {SentencesGetPatterns(sentences, pat, match_count, casks, index, <<>>)} :
             /\ result' = [op |-> "Sentences.get_patterns", sentence |-> 0,
                           index |-> index, ret |-> r.ret]
             /\ match_count' = r.count
             /\ casks' = r.casks
    /\ UNCHANGED <<pc, arg, pat, sentences, sections>>

NextEnumerate ==
    NewSentence \/ NewSentences \/ CallSentenceGetPatterns \/ CallSentencesGetPatterns

SpecEnumerate == InitEnumerate /\ [][NextEnumerate]_vars

\* The spans of the non-overlapping occurrences of the primary regex of p in
\* text from offset `from` on, left to right.
RECURSIVE Occurrences(_, _, _)
Occurrences(p, text, from) ==
    LET hits == {h \in PrimaryHits(p, text) : h >= from}
    IN  IF hits = {} THEN <<>>
        ELSE LET h == Min(hits)
                 k == Min(AltsAt(p.pattern, text, h))
                 e == h + Len(AltText(p.pattern.alts[k]))
             IN  << <<h, e>> >> \o Occurrences(p, text, e)

\* The occurrences get_patterns has to report for a sentence text: all of
\* them when the constraint check passes, none otherwise.
Reported(p, text) == IF Accepts(p, text, FALSE) THEN Occurrences(p, text, 0) ELSE <<>>

RECURSIVE ReportedAll(_, _)
ReportedAll(p, ss) ==
    IF ss = <<>> THEN <<>>
    ELSE [j \in 1..Len(Reported(p, Head(ss).text)) |->
             [text |-> Head(ss).text, span |-> Reported(p, Head(ss).text)[j]]]
         \o ReportedAll(p, Tail(ss))

\* C12: get_patterns yields one (text, start, end) triple per non-overlapping
\* occurrence of the primary regex in a sentence whose text passes the
\* constraint check, from left to right, and, for Sentences.get_patterns,
\* sentence after sentence; each triple lies in its occurrence and
\* sentence.text[start:end] is its text.
C12_GetPatternsEnumerates ==
    (result # NoResult /\ result.op \in {"Sentence.get_patterns", "Sentences.get_patterns"}) =>
        LET ss == IF result.sentence = 0 THEN sentences ELSE <<sentences[result.sentence]>>
            want == ReportedAll(pat, ss)
        IN  /\ result.ret.kind = "list"
            /\ Len(result.ret.items) = Len(want)
            /\ \A j \in 1..Len(want) :
                  LET t == result.ret.items[j]
                  IN  /\ want[j].span[1] <= t.start
                      /\ t.start <= t.end
                      /\ t.end <= want[j].span[2]
                      /\ Slice(want[j].text, t.start, t.end) = t.text

---------------------------------------------------------------------------
(* The removal runs: on a built document, query it and call remove_patterns. *)

\* A mutation of Pattern.sub: only the first match is replaced.
RECURSIVE PatternSubFirstOnly(_, _)
PatternSubFirstOnly(p, text) ==
    Bind({ IF ~Found(m) THEN text
           ELSE SubSeq(text, 1, m.start) \o SubSeq(text, m.end + 1, Len(text))
           : m \in {Search(p.pattern, text)} })

\* pat.sub('', text) (pattern.py:157-158): self.pattern.sub, which drops the
\* non-overlapping matches of the primary regex from left to right; no
\* constraint is looked at and match_count is not touched.
RECURSIVE PatternSub(_, _)
PatternSub(p, text) ==
    Bind({ IF ~Found(m) THEN text
           ELSE SubSeq(text, 1, m.start)
                \o PatternSub(p, SubSeq(text, m.end + 1, Len(text)))
           : m \in {Search(p.pattern, text)} })

\* The loop of remove_patterns (pattern.py:409-411).
RECURSIVE SubAll(_, _)
SubAll(pats, text) ==
    IF pats = <<>> THEN text ELSE SubAll(Tail(pats), PatternSub(Head(pats), text))

\* Document.remove_patterns (pattern.py:408-415): a new Document over the text
\* left, with sentences and a cask of its own, or None when nothing is left.
DocRemovePatterns(text, pats) ==
    Bind({ IF left # <<>>
           THEN Bind({ [kind |-> "Document", text |-> left, sentences |-> d.sentences,
                        casks |-> d.casks]
                       : d \in {DocumentInit(left)} })
           ELSE PyNoneRet
           : left \in {SubAll(pats, text)} })

RemoveTexts == TextsOver({"a", "b", NL}, MaxLen) \ {<<>>}

\* (a), (ab), and (b) negated by (a)
RemovePatternArgs ==
    << PArg(Lit(a1), <<>>, <<>>, <<>>, 0),
       PArg(Lit(a1 \o b1), <<>>, <<>>, <<>>, 0),
       PArg(Lit(b1), <<Lit(a1)>>, <<>>, <<>>, 0) >>

RemovePatLists ==
    UNION {[1..n -> 1..Len(RemovePatternArgs)] : n \in 0..2}

InitRemove == pc = "Sections" /\ DocumentBuilt(RemoveTexts)

\* doc.remove_patterns(*pats)
CallRemovePatterns ==
    /\ pc = "Sections"
    /\ \E pats \in RemovePatLists :
         result' = [op |-> "Document.remove_patterns", pats |-> pats,
                    ret |-> DocRemovePatterns(arg.text,
                               [i \in 1..Len(pats) |-> PatternInit(RemovePatternArgs[pats[i]])])]
    /\ UNCHANGED <<pc, arg, pat, match_count, sentences, casks, sections>>

\* doc.has_pattern(...) on a document whose cask is still empty
QueryFreshDocument == casks[DocCask] = <<>> /\ CallDocHasPattern

NextRemove == QueryFreshDocument \/ CallRemovePatterns

SpecRemove == InitRemove /\ [][NextRemove]_vars

\* text without the characters of the non-overlapping occurrences of the
\* primary regex of p.
Without(p, text) ==
    LET occ == Occurrences(p, text, 0)
        kept == SelectSeq([i \in 1..Len(text) |-> i],
                          LAMBDA i : \A j \in 1..Len(occ) : ~(occ[j][1] < i /\ i <= occ[j][2]))
    IN  [k \in 1..Len(kept) |-> text[kept[k]]]

RECURSIVE WithoutAll(_, _)
WithoutAll(pids, text) ==
    IF pids = <<>> THEN text
    ELSE WithoutAll(Tail(pids), Without(PatternInit(RemovePatternArgs[Head(pids)]), text))

\* C13: a remove_patterns call leaves the document's text, sentences and cask
\* as they were, and returns None when the text without the occurrences of
\* each pattern's primary regex (constraints not looked at) is empty, else a
\* new Document whose text that is.
C13_RemovePatterns ==
    [][ (result' # NoResult /\ result'.op = "Document.remove_patterns") =>
           /\ arg' = arg /\ sentences' = sentences /\ casks' = casks
           /\ LET left == WithoutAll(result'.pats, arg.text)
              IN  IF left = <<>> THEN result'.ret.kind = "None"
                  ELSE /\ result'.ret.kind = "Document"
                       /\ result'.ret.text = left ]_vars

\* A document whose cask holds a match had two patterns removed, the first
\* one, (b), negated by the occurrence of (a) in the text, and text is left.
C13_Witness ==
    /\ Did("Document.remove_patterns")
    /\ casks[DocCask] # <<>>
    /\ result.pats = <<3, 1>>
    /\ result.ret.kind = "Document"
    /\ Len(result.ret.text) = Len(arg.text) - 2

---------------------------------------------------------------------------
(* Claims about repeated calls, checked under SpecPattern.                   *)

\* The step is a matches call that repeats the call before it: the same
\* pattern, the same text, the same flags.
RepeatsMatches ==
    /\ result.op = "matches" /\ result'.op = "matches"
    /\ result'.ignore_negation = result.ignore_negation
    /\ result'.ignore_requires = result.ignore_requires
    /\ result'.ignore_requires_all = result.ignore_requires_all

\* C14: a matches call returns a match or the no-match value, changes nothing
\* but match_count, which it raises by one when it returns a match and leaves
\* alone when it returns no match; and a call that repeats the call before it
\* returns what that call returned.
C14_MatchesRepeatable ==
    [][ result'.op = "matches" =>
           /\ result'.ret.kind \in {"Match", "False"}
           /\ UNCHANGED <<pat, arg, sentences, casks, sections>>
           /\ match_count' = match_count + (IF result'.ret.kind = "Match" THEN 1 ELSE 0)
           /\ RepeatsMatches => result'.ret = result.ret ]_vars

---------------------------------------------------------------------------
(* The split runs: Document.split with a label regex of the form             *)
(* '(l1|l2|...)', one capture group around an alternation of label texts.    *)

\* str.upper() on the characters used here.
UpperChar(c) == CASE c = "a" -> "A" [] c = "b" -> "B" [] OTHER -> c
Upper(name) == [i \in 1..Len(name) |-> UpperChar(name[i])]

\* list(re.finditer(rx, text)) from offset `from` on: the non-overlapping
\* matches from left to right, the first label of the alternation that
\* matches at an offset winning; group(0) and group(1) are both the label.
RECURSIVE LabelMatches(_, _, _)
LabelMatches(labels, text, from) ==
    LET at(i) == {k \in 1..Len(labels) : MatchAt(labels[k], text, i)}
        hits == {i \in from..Len(text) : at(i) # {}}
    IN  IF hits = {} THEN <<>>
        ELSE Bind({ <<[start |-> Min(hits), end |-> Min(hits) + Len(l), name |-> l]>>
                    \o LabelMatches(labels, text, Min(hits) + Len(l))
                    : l \in {labels[Min(at(Min(hits)))]} })

\* Sections.add(name, text) (pattern.py:531-534) on the dict d over the cask
\* heap cs: the sentences of text, each with a cask of its own, in a Section
\* with a cask of its own, stored under name.upper().
SectionsAdd(d, name, text, cs) ==
    Bind({ Bind({ [d |-> [k \in DOMAIN d \cup {Upper(name)} |->
                            IF k = Upper(name) THEN sec.section ELSE d[k]],
                   casks |-> sec.casks]
                  : sec \in {SectionInit(ss.sentences, 0, ss.casks)} })
           : ss \in {SentencesInit(text, 0, "default_ssplit", cs)} })

\* The loop of Document.split (pattern.py:512-516) over the label matches ms
\* still to come; w holds prev_start, prev_name (PyNone at first), the dict
\* and the cask heap.
RECURSIVE SplitLoop(_, _, _)
SplitLoop(text, ms, w) ==
    IF ms = <<>> THEN w
    ELSE Bind({ SplitLoop(text, Tail(ms),
                    [prev_start |-> Head(ms).end, prev_name |-> Head(ms).name,
                     d |-> a.d, casks |-> a.casks])
                : a \in {IF w.prev_name # PyNone /\ w.prev_name # <<>>
                         THEN SectionsAdd(w.d, w.prev_name,
                                          Slice(text, w.prev_start, Head(ms).start), w.casks)
                         ELSE [d |-> w.d, casks |-> w.casks]} })

\* Document.split(rx, group) (pattern.py:508-519); text is Document.text.
DocSplit(text, labels, cs) ==
    Bind({ IF w.prev_name # PyNone /\ w.prev_name # <<>>
           THEN SectionsAdd(w.d, w.prev_name, Slice(text, w.prev_start, Len(text)), w.casks)
           ELSE [d |-> w.d, casks |-> w.casks]
           : w \in {SplitLoop(text, LabelMatches(labels, text, 0),
                              [prev_start |-> 0, prev_name |-> PyNone,
                               d |-> <<>>, casks |-> cs])} })

SplitTexts == TextsOver({"a", "b", "c", NL}, MaxLen) \ {<<>>}

\* The label regex '(a|b)'.
SplitLabels == <<a1, b1>>

InitSplit == pc = "Splitting" /\ DocumentBuilt(SplitTexts)

\* doc.split('(a|b)', group=group)
CallSplit ==
    /\ pc = "Splitting"
    /\ \E group \in 0..1 :
         \E r \in {DocSplit(arg.text, SplitLabels, casks)} :
             /\ result' = [op |-> "Document.split", group |-> group,
                           ret |-> [kind |-> "Sections", sections |-> r.d]]
             /\ casks' = r.casks
    /\ pc' = "split"
    /\ UNCHANGED <<arg, pat, match_count, sentences, sections>>

NextSplit == CallSplit

SpecSplit == InitSplit /\ [][NextSplit]_vars

\* The (text, start, end) of the sentences of a list.
Triples(ss) == [i \in 1..Len(ss) |-> <<ss[i].text, ss[i].start, ss[i].end>>]

\* C15: for every match of the label regex, the Sections returned by split
\* hold, under the uppercased label, a Section whose sentences are the
\* sentence split of the text from the end of that match to the start of the
\* next match, or to the end of the text after the last match.
C15_SplitPartitions ==
    pc = "split" =>
        LET ms == LabelMatches(SplitLabels, arg.text, 0)
            d == result.ret.sections
        IN  \A j \in 1..Len(ms) :
               LET upto == IF j < Len(ms) THEN ms[j + 1].start ELSE Len(arg.text)
                   chunk == Slice(arg.text, ms[j].end, upto)
               IN  /\ Upper(ms[j].name) \in DOMAIN d
                   /\ Triples(d[Upper(ms[j].name)].sentences)
                         = Triples(SentencesInit(chunk, 0, "default_ssplit", <<>>).sentences)

---------------------------------------------------------------------------
(* Match.group on a Match with compressed groups, in the Sentence runs.      *)

\* The Match the last Sentence.get_pattern call put into its sentence's cask.
LastMatch == casks[sentences[result.sentence].matches][Len(casks[sentences[result.sentence].matches])]

\* A Sentence.get_pattern call that found its pattern, the Match carrying
\* compressed groups.
GotCompressedMatch ==
    /\ pc \in {"Sentence", "Sentences"}
    /\ result.op = "Sentence.get_pattern"
    /\ result.ret.kind \in {"str", "tuple"}
    /\ LastMatch.cgroups # PyNone

\* C16: on a Match with compressed groups group(i), i >= 1, is element i-1 of
\* the compressed tuple and group(0) the whole matched text, so
\* Sentence.get_pattern(pat, index=i) on a matching sentence returns the text
\* captured by logical group i.
C16_GroupReadsCompressedTuple ==
    GotCompressedMatch =>
        /\ \A i \in 1..Len(LastMatch.cgroups) :
               MatchGroup(LastMatch, i) = LastMatch.cgroups[i]
        /\ MatchGroup(LastMatch, 0)
               = Slice(LastMatch.string, LastMatch.start, LastMatch.end)
        /\ result.ret.text = IF result.index = 0
                             THEN Slice(LastMatch.string, LastMatch.start, LastMatch.end)
                             ELSE LastMatch.cgroups[result.index]

============================================================================
